---- MODULE Spec2Model ----
(***************************************************************************)
(* A model of the social-network REST API of nosql-tp2-neo4j: the Flask    *)
(* route handlers of app/routes/{users,posts,comments}.py acting on the    *)
(* Neo4j property graph through py2neo's Graph and OGM Repository.         *)
(*                                                                         *)
(* Every handler is an operator from the graph and the request to the     *)
(* graph afterwards and the HTTP response; an action applies it.           *)
(***************************************************************************)
EXTENDS Integers, Sequences, FiniteSets, TLC

(***************************************************************************)
(* Bounds.                                                                 *)
(***************************************************************************)
\* how many keys uuid4() hands out per label before the model stops creating
MaxUsers == 3
MaxPosts == 2
MaxComments == 2
\* how many requests the service handles in one behaviour
MaxRequests == 2

UserKeys == 1..MaxUsers
PostKeys == 1..MaxPosts
CommentKeys == 1..MaxComments

\* the string values request bodies carry
Vals == {"x", "y"}

\* how many requests are in flight at once when they run concurrently
MaxWorkers == 2

Workers == 1..MaxWorkers

\* graph: the Neo4j store.  issued: how many keys uuid4() has given per label.
\* served: how many requests have been taken on.  route, response: the
\* handler that answered last and its answer.  workers: the requests in
\* flight, each with the OGM objects it holds.
VARIABLES graph, issued, served, route, response, workers

vars == <<graph, issued, served, route, response, workers>>

(***************************************************************************)
(* The graph store: nodes with properties, relationships as a bag (a       *)
(* property graph may hold parallel relationships of one type).            *)
(***************************************************************************)
Node(label, key) == <<label, key>>

User == "User"
Post == "Post"
Comment == "Comment"

Rel(type, a, b) == [type |-> type, start |-> a, end |-> b]

EmptyGraph == [nodes |-> <<>>, rels |-> <<>>]

Exists(g, n) == n \in DOMAIN g.nodes

RelCount(g, r) == IF r \in DOMAIN g.rels THEN g.rels[r] ELSE 0

\* graph.create(node): a new node with its properties
graph_create(g, n, props) ==
    [g EXCEPT !.nodes = (n :> props) @@ g.nodes]

\* a slip: DELETE without DETACH, the node's relationships stay
repo_delete_node_only(g, n) ==
    [g EXCEPT !.nodes = [m \in DOMAIN g.nodes \ {n} |-> g.nodes[m]]]

\* repo.delete(obj): DETACH DELETE of the node, if it is still there
repo_delete(g, n) ==
    [nodes |-> [m \in DOMAIN g.nodes \ {n} |-> g.nodes[m]],
     rels |-> [r \in {x \in DOMAIN g.rels : x.start # n /\ x.end # n} |-> g.rels[r]]]

(***************************************************************************)
(* py2neo OGM objects.  repo.match(...).first() gives None or an object    *)
(* holding the node's properties; a RelatedTo collection is pulled from    *)
(* the store when first used and pushed back whole by repo.save.           *)
(***************************************************************************)
None == [none |-> TRUE]

repo_match(g, label, key) ==
    IF Exists(g, Node(label, key))
    THEN [node |-> Node(label, key), props |-> g.nodes[Node(label, key)], related |-> <<>>]
    ELSE None

\* RelatedObjects pull: the end nodes of the relationships of this type
\* that start at the node, one entry per node
related(g, n, type) ==
    {r.end : r \in {x \in DOMAIN g.rels : x.type = type /\ x.start = n}}

\* the object with one RelatedTo collection loaded and changed
with_related(obj, type, nodes) ==
    [obj EXCEPT !.related = (type :> nodes) @@ obj.related]

\* a slip: CREATE in place of MERGE, one more relationship each time
create_rel(g, r) ==
    IF Exists(g, r.start) /\ Exists(g, r.end)
    THEN [g EXCEPT !.rels = (r :> RelCount(g, r) + 1) @@ g.rels]
    ELSE g

\* MERGE (a)-[:type]->(b): nothing when either end is gone, nothing when
\* such a relationship is there, else one new relationship
merge_rel(g, r) ==
    IF Exists(g, r.start) /\ Exists(g, r.end) /\ RelCount(g, r) = 0
    THEN [g EXCEPT !.rels = (r :> 1) @@ g.rels]
    ELSE g

RECURSIVE merge_rels(_, _)
merge_rels(g, rs) ==
    IF rs = {} THEN g
    ELSE LET r == CHOOSE x \in rs : TRUE
         IN merge_rels(merge_rel(g, r), rs \ {r})

\* RelatedObjects push: delete the relationships of the type from the node
\* to nodes outside the collection, then MERGE one to each node in it
push_related(g, n, type, nodes) ==
    LET kept == {r \in DOMAIN g.rels : ~(r.type = type /\ r.start = n /\ r.end \notin nodes)}
        g1 == [g EXCEPT !.rels = [r \in kept |-> g.rels[r]]]
    IN merge_rels(g1, {Rel(type, n, m) : m \in nodes})

RECURSIVE push_all_related(_, _, _)
push_all_related(g, obj, types) ==
    IF types = {} THEN g
    ELSE LET t == CHOOSE x \in types : TRUE
         IN push_all_related(push_related(g, obj.node, t, obj.related[t]), obj, types \ {t})

\* Model push: the node's properties (SET on a MATCH: nothing when the
\* node is gone), then every loaded collection
push(g, obj) ==
    LET g1 == IF Exists(g, obj.node)
              THEN [g EXCEPT !.nodes = [g.nodes EXCEPT ![obj.node] = obj.props]]
              ELSE g
    IN push_all_related(g1, obj, DOMAIN obj.related)

\* repo.save(*objects): one transaction pushing each object in turn
RECURSIVE repo_save(_, _)
repo_save(g, objs) ==
    IF objs = <<>> THEN g
    ELSE repo_save(push(g, Head(objs)), Tail(objs))

(***************************************************************************)
(* Responses: jsonify(body), status code.                                  *)
(***************************************************************************)
Resp(g, code, body) == [graph |-> g, response |-> [code |-> code, body |-> body]]

Error(text) == [error |-> text]
Message(text) == [message |-> text]

\* request.json: the fields a body carries
Bodies(fields, values) == UNION {[S -> values] : S \in SUBSET fields}

\* a Python list built by iterating an unordered collection: its members in
\* the iteration order
ListOf(S, order) == SelectSeq(order, LAMBDA x : x \in S)

Range(s) == {s[i] : i \in DOMAIN s}

Perms(S) == {s \in [1..Cardinality(S) -> S] : Range(s) = S}

(***************************************************************************)
(* app/routes/users.py                                                     *)
(***************************************************************************)
get_user_by_id(g, user_id) ==
    LET user == repo_match(g, User, user_id)
    IN IF user = None THEN Resp(g, 404, Error("User not found."))
       ELSE Resp(g, 200, [user_id |-> user.props.user_id, name |-> user.props.name,
                          email |-> user.props.email, created_at |-> user.props.created_at])

\* a slip: name and email stored in each other's place
create_user_swapped(g, data, uuid, time) ==
    IF "name" \notin DOMAIN data THEN Resp(g, 400, Message("name property is missing"))
    ELSE IF "email" \notin DOMAIN data THEN Resp(g, 400, Message("email property is missing"))
    ELSE Resp(graph_create(g, Node(User, uuid),
                           [user_id |-> uuid, name |-> data["email"],
                            email |-> data["name"], created_at |-> time]),
              201, Message("User succesfully created"))

create_user(g, data, uuid, time) ==
    IF "name" \notin DOMAIN data THEN Resp(g, 400, Message("name property is missing"))
    ELSE IF "email" \notin DOMAIN data THEN Resp(g, 400, Message("email property is missing"))
    ELSE Resp(graph_create(g, Node(User, uuid),
                           [user_id |-> uuid, name |-> data["name"],
                            email |-> data["email"], created_at |-> time]),
              201, Message("User succesfully created"))

update_user(g, user_id, data) ==
    LET user == repo_match(g, User, user_id)
        u1 == IF "name" \in DOMAIN data
              THEN [user EXCEPT !.props.name = data["name"]] ELSE user
        u2 == IF "email" \in DOMAIN data
              THEN [u1 EXCEPT !.props.email = data["email"]] ELSE u1
    IN IF user = None THEN Resp(g, 404, Error("User not found"))
       ELSE Resp(repo_save(g, <<u2>>), 201, Message("User succesfully updated"))

delete_user(g, user_id) ==
    LET user == repo_match(g, User, user_id)
    IN IF user = None THEN Resp(g, 404, Error("User not found"))
       ELSE Resp(repo_delete(g, user.node), 204, <<>>)

get_user_friends(g, user_id, order) ==
    LET user == repo_match(g, User, user_id)
        friends == ListOf(related(g, user.node, "FRIENDS_WITH"), order)
    IN IF user = None THEN Resp(g, 404, Error("User not found."))
       ELSE Resp(g, 200, [user_id |-> user.props.user_id,
                          friends |-> [i \in DOMAIN friends |->
                                          [user_id |-> g.nodes[friends[i]].user_id,
                                           name |-> g.nodes[friends[i]].name]]])

\* lines 300-301: both users with their friends_with collections pulled and
\* the other user added
add_friend_objects(g, user, new_friend) ==
    <<with_related(user, "FRIENDS_WITH",
          related(g, user.node, "FRIENDS_WITH") \cup {new_friend.node}),
      with_related(new_friend, "FRIENDS_WITH",
          related(g, new_friend.node, "FRIENDS_WITH") \cup {user.node})>>

\* a slip: only the user is saved, not the new friend
add_friend_saving_user_only(g, user_id, data) ==
    LET user == repo_match(g, User, user_id)
        new_friend == repo_match(g, User, data["friend_id"])
    IN IF user = None THEN Resp(g, 404, Error("User not found."))
       ELSE IF "friend_id" \notin DOMAIN data
            THEN Resp(g, 400, Error("friend_id property is missing"))
       ELSE IF new_friend = None THEN Resp(g, 404, Error("Friend User to add not found."))
       ELSE Resp(repo_save(g, <<add_friend_objects(g, user, new_friend)[1]>>), 201,
                 Message("Friend succesfully added"))

add_friend_to_user(g, user_id, data) ==
    LET user == repo_match(g, User, user_id)
        new_friend == repo_match(g, User, data["friend_id"])
    IN IF user = None THEN Resp(g, 404, Error("User not found."))
       ELSE IF "friend_id" \notin DOMAIN data
            THEN Resp(g, 400, Error("friend_id property is missing"))
       ELSE IF new_friend = None THEN Resp(g, 404, Error("Friend User to add not found."))
       ELSE Resp(repo_save(g, add_friend_objects(g, user, new_friend)), 201,
                 Message("Friend succesfully added"))

\* lines 339-340: both users with their friends_with collections pulled and
\* the other user removed
remove_friend_objects(g, user, friend) ==
    <<with_related(user, "FRIENDS_WITH",
          related(g, user.node, "FRIENDS_WITH") \ {friend.node}),
      with_related(friend, "FRIENDS_WITH",
          related(g, friend.node, "FRIENDS_WITH") \ {user.node})>>

remove_friend_to_user(g, user_id, friend_id) ==
    LET user == repo_match(g, User, user_id)
        friend == repo_match(g, User, friend_id)
    IN IF user = None THEN Resp(g, 404, Error("User not found."))
       ELSE IF friend = None THEN Resp(g, 404, Error("Friend User to remove not found."))
       ELSE Resp(repo_save(g, remove_friend_objects(g, user, friend)), 201,
                 Message("Friend succesfully removed"))

check_users_are_friends(g, user_id, friend_id) ==
    LET user == repo_match(g, User, user_id)
        friend == repo_match(g, User, friend_id)
    IN IF user = None THEN Resp(g, 404, Error("User not found."))
       ELSE IF friend = None THEN Resp(g, 404, Error("Friend User not found."))
       ELSE IF friend.node \in related(g, user.node, "FRIENDS_WITH")
            THEN Resp(g, 200, TRUE)
       ELSE Resp(g, 200, FALSE)

\* a slip: the friends of either user, not of both
get_friends_of_either(g, user_id, other_id, order) ==
    LET user == repo_match(g, User, user_id)
        other_user == repo_match(g, User, other_id)
        friends == ListOf(related(g, user.node, "FRIENDS_WITH"), order)
        user_friends == [i \in DOMAIN friends |-> g.nodes[friends[i]].user_id]
        others == ListOf(related(g, other_user.node, "FRIENDS_WITH"), order)
        other_user_friends == [i \in DOMAIN others |-> g.nodes[others[i]].user_id]
        mutual_friends == ListOf(Range(user_friends) \cup Range(other_user_friends),
                                 [i \in DOMAIN order |-> order[i][2]])
    IN IF user = None THEN Resp(g, 404, Error("User not found."))
       ELSE IF other_user = None THEN Resp(g, 404, Error("Other User not found."))
       ELSE Resp(g, 200, mutual_friends)

get_mutual_friends(g, user_id, other_id, order) ==
    LET user == repo_match(g, User, user_id)
        other_user == repo_match(g, User, other_id)
        friends == ListOf(related(g, user.node, "FRIENDS_WITH"), order)
        user_friends == [i \in DOMAIN friends |-> g.nodes[friends[i]].user_id]
        others == ListOf(related(g, other_user.node, "FRIENDS_WITH"), order)
        other_user_friends == [i \in DOMAIN others |-> g.nodes[others[i]].user_id]
        mutual_friends == ListOf({x \in Range(user_friends) : x \in Range(other_user_friends)},
                                 [i \in DOMAIN order |-> order[i][2]])
    IN IF user = None THEN Resp(g, 404, Error("User not found."))
       ELSE IF other_user = None THEN Resp(g, 404, Error("Other User not found."))
       ELSE Resp(g, 200, mutual_friends)

\* user.created is no attribute of the User model: AttributeError, which
\* Flask answers with 500
get_user_posts(g, user_id) ==
    LET user == repo_match(g, User, user_id)
    IN IF user = None THEN Resp(g, 404, Error("User not found."))
       ELSE Resp(g, 500, Error("AttributeError"))

\* a reordering: the body's fields are checked before the user is looked up
create_post_fields_first(g, user_id, data, uuid, time) ==
    LET user == repo_match(g, User, user_id)
        post == Node(Post, uuid)
        g1 == graph_create(g, post, [post_id |-> uuid, title |-> data["title"],
                                     content |-> data["content"], created_at |-> time])
        user1 == with_related(user, "CREATED", related(g1, user.node, "CREATED") \cup {post})
    IN IF "title" \notin DOMAIN data THEN Resp(g, 400, Message("title property is missing"))
       ELSE IF "content" \notin DOMAIN data
            THEN Resp(g, 400, Message("content property is missing"))
       ELSE IF user = None THEN Resp(g, 404, Error("User not found."))
       ELSE Resp(repo_save(g1, <<user1>>), 201, Message("Post succesfully created"))

create_post(g, user_id, data, uuid, time) ==
    LET user == repo_match(g, User, user_id)
        post == Node(Post, uuid)
        g1 == graph_create(g, post, [post_id |-> uuid, title |-> data["title"],
                                     content |-> data["content"], created_at |-> time])
        user1 == with_related(user, "CREATED", related(g1, user.node, "CREATED") \cup {post})
    IN IF user = None THEN Resp(g, 404, Error("User not found."))
       ELSE IF "title" \notin DOMAIN data THEN Resp(g, 400, Message("title property is missing"))
       ELSE IF "content" \notin DOMAIN data
            THEN Resp(g, 400, Message("content property is missing"))
       ELSE Resp(repo_save(g1, <<user1>>), 201, Message("Post succesfully created"))

(***************************************************************************)
(* app/routes/posts.py                                                     *)
(***************************************************************************)
get_post_by_id(g, post_id) ==
    LET post == repo_match(g, Post, post_id)
    IN IF post = None THEN Resp(g, 404, Error("Post not found."))
       ELSE Resp(g, 200, [post_id |-> post.props.post_id, title |-> post.props.title,
                          content |-> post.props.content,
                          created_at |-> post.props.created_at])

\* a slip: a field the body does not carry is cleared
update_post_clearing(g, post_id, data) ==
    LET post == repo_match(g, Post, post_id)
        p1 == [post EXCEPT !.props.title =
                  IF "title" \in DOMAIN data THEN data["title"] ELSE ""]
        p2 == [p1 EXCEPT !.props.content =
                  IF "content" \in DOMAIN data THEN data["content"] ELSE ""]
    IN IF post = None THEN Resp(g, 404, Error("Post not found"))
       ELSE Resp(repo_save(g, <<p2>>), 201, Message("Post succesfully updated"))

update_post(g, post_id, data) ==
    LET post == repo_match(g, Post, post_id)
        p1 == IF "title" \in DOMAIN data
              THEN [post EXCEPT !.props.title = data["title"]] ELSE post
        p2 == IF "content" \in DOMAIN data
              THEN [p1 EXCEPT !.props.content = data["content"]] ELSE p1
    IN IF post = None THEN Resp(g, 404, Error("Post not found"))
       ELSE Resp(repo_save(g, <<p2>>), 201, Message("Post succesfully updated"))

\* for comment in post.has_comment: repo.delete(comment)
RECURSIVE delete_each(_, _)
delete_each(g, nodes) ==
    IF nodes = {} THEN g
    ELSE LET n == CHOOSE x \in nodes : TRUE
         IN delete_each(repo_delete(g, n), nodes \ {n})

\* a slip: the post is deleted without its comments
delete_post_only(g, post_id) ==
    LET post == repo_match(g, Post, post_id)
    IN IF post = None THEN Resp(g, 404, Error("Post not found"))
       ELSE Resp(repo_delete(g, post.node), 204, <<>>)

delete_post(g, post_id) ==
    LET post == repo_match(g, Post, post_id)
        g1 == delete_each(g, related(g, post.node, "HAS_COMMENT"))
    IN IF post = None THEN Resp(g, 404, Error("Post not found"))
       ELSE Resp(repo_delete(g1, post.node), 204, <<>>)

post_add_like(g, post_id, data) ==
    LET user == repo_match(g, User, data["user_id"])
        post == repo_match(g, Post, post_id)
        user1 == with_related(user, "LIKES", related(g, user.node, "LIKES") \cup {post.node})
    IN IF "user_id" \notin DOMAIN data THEN Resp(g, 400, Error("user_id property is missing"))
       ELSE IF user = None THEN Resp(g, 404, Error("User not found."))
       ELSE IF post = None THEN Resp(g, 404, Error("Post not found."))
       ELSE Resp(repo_save(g, <<user1>>), 201,
                 [message |-> "Post succesfully liked by User", user_id |-> user.props.user_id])

\* a slip: removing a like that is not there is an error
post_remove_like_strict(g, post_id, data) ==
    LET user == repo_match(g, User, data["user_id"])
        post == repo_match(g, Post, post_id)
        user1 == with_related(user, "LIKES", related(g, user.node, "LIKES") \ {post.node})
    IN IF "user_id" \notin DOMAIN data THEN Resp(g, 400, Error("user_id property is missing"))
       ELSE IF user = None THEN Resp(g, 404, Error("User not found."))
       ELSE IF post = None THEN Resp(g, 404, Error("Post not found."))
       ELSE IF post.node \notin related(g, user.node, "LIKES")
            THEN Resp(g, 404, Error("Like not found."))
       ELSE Resp(repo_save(g, <<user1>>), 201,
                 [message |-> "Post succesfully unliked by User", user_id |-> user.props.user_id])

post_remove_like(g, post_id, data) ==
    LET user == repo_match(g, User, data["user_id"])
        post == repo_match(g, Post, post_id)
        user1 == with_related(user, "LIKES", related(g, user.node, "LIKES") \ {post.node})
    IN IF "user_id" \notin DOMAIN data THEN Resp(g, 400, Error("user_id property is missing"))
       ELSE IF user = None THEN Resp(g, 404, Error("User not found."))
       ELSE IF post = None THEN Resp(g, 404, Error("Post not found."))
       ELSE Resp(repo_save(g, <<user1>>), 201,
                 [message |-> "Post succesfully unliked by User", user_id |-> user.props.user_id])

get_post_comments(g, post_id, order) ==
    LET post == repo_match(g, Post, post_id)
        comments == ListOf(related(g, post.node, "HAS_COMMENT"), order)
    IN IF post = None THEN Resp(g, 404, Error("Post not found."))
       ELSE Resp(g, 200, [i \in DOMAIN comments |->
                             [comment_id |-> g.nodes[comments[i]].comment_id,
                              content |-> g.nodes[comments[i]].content,
                              created_at |-> g.nodes[comments[i]].created_at]])

\* a slip: the comment node is created before the post is looked up
create_comment_node_first(g, post_id, data, uuid, time) ==
    LET user == repo_match(g, User, data["user_id"])
        post == repo_match(g, Post, post_id)
        comment == Node(Comment, uuid)
        g1 == graph_create(g, comment, [comment_id |-> uuid, content |-> data["content"],
                                        created_at |-> time])
        user1 == with_related(user, "CREATED", related(g1, user.node, "CREATED") \cup {comment})
        post1 == with_related(post, "HAS_COMMENT",
                     related(g1, post.node, "HAS_COMMENT") \cup {comment})
    IN IF "user_id" \notin DOMAIN data THEN Resp(g, 400, Message("user_id property is missing"))
       ELSE IF user = None THEN Resp(g, 404, Error("User not found."))
       ELSE IF "content" \notin DOMAIN data
            THEN Resp(g, 400, Message("content property is missing"))
       ELSE IF post = None THEN Resp(g1, 404, Error("Post not found."))
       ELSE Resp(repo_save(g1, <<user1, post1>>), 201, Message("Comment succesfully created"))

create_comment(g, post_id, data, uuid, time) ==
    LET user == repo_match(g, User, data["user_id"])
        post == repo_match(g, Post, post_id)
        comment == Node(Comment, uuid)
        g1 == graph_create(g, comment, [comment_id |-> uuid, content |-> data["content"],
                                        created_at |-> time])
        user1 == with_related(user, "CREATED", related(g1, user.node, "CREATED") \cup {comment})
        post1 == with_related(post, "HAS_COMMENT",
                     related(g1, post.node, "HAS_COMMENT") \cup {comment})
    IN IF "user_id" \notin DOMAIN data THEN Resp(g, 400, Message("user_id property is missing"))
       ELSE IF user = None THEN Resp(g, 404, Error("User not found."))
       ELSE IF "content" \notin DOMAIN data
            THEN Resp(g, 400, Message("content property is missing"))
       ELSE IF post = None THEN Resp(g, 404, Error("Post not found."))
       ELSE Resp(repo_save(g1, <<user1, post1>>), 201, Message("Comment succesfully created"))

\* a slip: the comment is deleted whether or not the post has it
delete_post_comment_unscoped(g, post_id, comment_id) ==
    LET post == repo_match(g, Post, post_id)
        comment == repo_match(g, Comment, comment_id)
    IN IF post = None THEN Resp(g, 404, Error("Post not found"))
       ELSE IF comment = None THEN Resp(g, 404, Error("Comment not found"))
       ELSE Resp(repo_delete(g, comment.node), 204, <<>>)

delete_post_comment(g, post_id, comment_id) ==
    LET post == repo_match(g, Post, post_id)
        comment == repo_match(g, Comment, comment_id)
    IN IF post = None THEN Resp(g, 404, Error("Post not found"))
       ELSE IF comment = None THEN Resp(g, 404, Error("Comment not found"))
       ELSE IF comment.node \notin related(g, post.node, "HAS_COMMENT")
            THEN Resp(g, 404, [error |-> "Comment not found in Post", post_id |-> post_id])
       ELSE Resp(repo_delete(g, comment.node), 204, <<>>)

(***************************************************************************)
(* app/routes/comments.py                                                  *)
(***************************************************************************)
get_comment_by_id(g, comment_id) ==
    LET comment == repo_match(g, Comment, comment_id)
    IN IF comment = None THEN Resp(g, 404, Error("Comment not found."))
       ELSE Resp(g, 200, [comment_id |-> comment.props.comment_id,
                          content |-> comment.props.content,
                          created_at |-> comment.props.created_at])

update_comment(g, comment_id, data) ==
    LET comment == repo_match(g, Comment, comment_id)
        c1 == IF "content" \in DOMAIN data
              THEN [comment EXCEPT !.props.content = data["content"]] ELSE comment
    IN IF comment = None THEN Resp(g, 404, Error("Comment not found"))
       ELSE Resp(repo_save(g, <<c1>>), 201, Message("Comment succesfully updated"))

delete_comment(g, comment_id) ==
    LET comment == repo_match(g, Comment, comment_id)
    IN IF comment = None THEN Resp(g, 404, Error("Comment not found"))
       ELSE Resp(repo_delete(g, comment.node), 204, <<>>)

comment_add_like(g, comment_id, data) ==
    LET user == repo_match(g, User, data["user_id"])
        comment == repo_match(g, Comment, comment_id)
        user1 == with_related(user, "LIKES", related(g, user.node, "LIKES") \cup {comment.node})
    IN IF "user_id" \notin DOMAIN data THEN Resp(g, 400, Error("user_id property is missing"))
       ELSE IF user = None THEN Resp(g, 404, Error("User not found."))
       ELSE IF comment = None THEN Resp(g, 404, Error("Comment not found."))
       ELSE Resp(repo_save(g, <<user1>>), 201,
                 [message |-> "Comment succesfully liked by User",
                  user_id |-> user.props.user_id])

comment_remove_like(g, comment_id, data) ==
    LET user == repo_match(g, User, data["user_id"])
        comment == repo_match(g, Comment, comment_id)
        user1 == with_related(user, "LIKES", related(g, user.node, "LIKES") \ {comment.node})
    IN IF "user_id" \notin DOMAIN data THEN Resp(g, 400, Error("user_id property is missing"))
       ELSE IF user = None THEN Resp(g, 404, Error("User not found."))
       ELSE IF comment = None THEN Resp(g, 404, Error("Comment not found."))
       ELSE Resp(repo_save(g, <<user1>>), 201,
                 [message |-> "Comment succesfully unliked by User",
                  user_id |-> user.props.user_id])

(***************************************************************************)
(* The service handling one request at a time.                             *)
(***************************************************************************)
\* The stores the service is started on: the empty one, and stores that
\* earlier requests leave, each computed by the handlers themselves (the
\* end-to-end scenario: a user, a post by them, a comment by them on it;
\* the same once more with a second user; then a third user befriended by
\* both).  Those requests were handled before time 0.
Scenario(g, k, time) ==
    LET g1 == create_user(g, [name |-> "x", email |-> "y"], k, time).graph
        g2 == create_post(g1, k, [title |-> "x", content |-> "y"], k, time + 1).graph
    IN create_comment(g2, k, [user_id |-> k, content |-> "x"], k, time + 2).graph

Befriended(g, time) ==
    LET g1 == create_user(g, [name |-> "y", email |-> "x"], 3, time).graph
        g2 == add_friend_to_user(g1, 1, [friend_id |-> 3]).graph
    IN add_friend_to_user(g2, 2, [friend_id |-> 3]).graph

Keys(users, posts, comments) ==
    (User :> users) @@ (Post :> posts) @@ (Comment :> comments)

Seeds ==
    {[graph |-> EmptyGraph, issued |-> Keys(0, 0, 0)],
     [graph |-> Scenario(EmptyGraph, 1, -9), issued |-> Keys(1, 1, 1)],
     [graph |-> Scenario(Scenario(EmptyGraph, 1, -9), 2, -6), issued |-> Keys(2, 2, 2)],
     [graph |-> Befriended(Scenario(Scenario(EmptyGraph, 1, -9), 2, -6), -3),
      issued |-> Keys(3, 2, 2)]}

Idle == [op |-> "idle"]

Init ==
    /\ \E s \in Seeds :
          /\ graph = s.graph
          /\ issued = s.issued
    /\ served = 0
    /\ route = "none"
    /\ response = [code |-> 0, body |-> <<>>]
    /\ workers = [w \in Workers |-> Idle]

\* a request handled from start to end: the graph and the response after it
Handle(name, r) ==
    /\ served < MaxRequests
    /\ graph' = r.graph
    /\ route' = name
    /\ response' = r.response
    /\ served' = served + 1
    /\ UNCHANGED <<issued, workers>>

\* a creating request: uuid4() gives a key never given before, time() the
\* clock, here the number of requests taken on so far
Create(name, label, max, r) ==
    /\ served < MaxRequests
    /\ r.response.code = 201 => issued[label] < max
    /\ graph' = r.graph
    /\ route' = name
    /\ response' = r.response
    /\ served' = served + 1
    /\ issued' = IF r.response.code = 201
                 THEN [issued EXCEPT ![label] = @ + 1] ELSE issued
    /\ UNCHANGED workers

UserOrders == Perms({Node(User, k) : k \in UserKeys})
CommentOrders == Perms({Node(Comment, k) : k \in CommentKeys})

UserBodies == Bodies({"name", "email"}, Vals)
PostBodies == Bodies({"title", "content"}, Vals)
FriendBodies == Bodies({"friend_id"}, UserKeys)
LikeBodies == Bodies({"user_id"}, UserKeys)
CommentBodies == {a @@ b : a \in Bodies({"user_id"}, UserKeys), b \in Bodies({"content"}, Vals)}
ContentBodies == Bodies({"content"}, Vals)

GetUserById ==
    \E u \in UserKeys : Handle("get_user_by_id", get_user_by_id(graph, u))
CreateUser ==
    \E d \in UserBodies :
        Create("create_user", User, MaxUsers, create_user(graph, d, issued[User] + 1, served))
UpdateUser ==
    \E u \in UserKeys, d \in UserBodies : Handle("update_user", update_user(graph, u, d))
DeleteUser ==
    \E u \in UserKeys : Handle("delete_user", delete_user(graph, u))
GetUserFriends ==
    \E u \in UserKeys, o \in UserOrders :
        Handle("get_user_friends", get_user_friends(graph, u, o))
AddFriendToUser ==
    \E u \in UserKeys, d \in FriendBodies :
        Handle("add_friend_to_user", add_friend_to_user(graph, u, d))
RemoveFriendToUser ==
    \E u, f \in UserKeys :
        Handle("remove_friend_to_user", remove_friend_to_user(graph, u, f))
CheckUsersAreFriends ==
    \E u, f \in UserKeys :
        Handle("check_users_are_friends", check_users_are_friends(graph, u, f))
GetMutualFriends ==
    \E u, f \in UserKeys, o \in UserOrders :
        Handle("get_mutual_friends", get_mutual_friends(graph, u, f, o))
GetUserPosts ==
    \E u \in UserKeys : Handle("get_user_posts", get_user_posts(graph, u))
CreatePost ==
    \E u \in UserKeys, d \in PostBodies :
        Create("create_post", Post, MaxPosts,
               create_post(graph, u, d, issued[Post] + 1, served))

GetPostById ==
    \E p \in PostKeys : Handle("get_post_by_id", get_post_by_id(graph, p))
UpdatePost ==
    \E p \in PostKeys, d \in PostBodies : Handle("update_post", update_post(graph, p, d))
DeletePost ==
    \E p \in PostKeys : Handle("delete_post", delete_post(graph, p))
PostAddLike ==
    \E p \in PostKeys, d \in LikeBodies : Handle("post_add_like", post_add_like(graph, p, d))
PostRemoveLike ==
    \E p \in PostKeys, d \in LikeBodies :
        Handle("post_remove_like", post_remove_like(graph, p, d))
GetPostComments ==
    \E p \in PostKeys, o \in CommentOrders :
        Handle("get_post_comments", get_post_comments(graph, p, o))
CreateComment ==
    \E p \in PostKeys, d \in CommentBodies :
        Create("create_comment", Comment, MaxComments,
               create_comment(graph, p, d, issued[Comment] + 1, served))
DeletePostComment ==
    \E p \in PostKeys, c \in CommentKeys :
        Handle("delete_post_comment", delete_post_comment(graph, p, c))

GetCommentById ==
    \E c \in CommentKeys : Handle("get_comment_by_id", get_comment_by_id(graph, c))
UpdateComment ==
    \E c \in CommentKeys, d \in ContentBodies :
        Handle("update_comment", update_comment(graph, c, d))
DeleteComment ==
    \E c \in CommentKeys : Handle("delete_comment", delete_comment(graph, c))
CommentAddLike ==
    \E c \in CommentKeys, d \in LikeBodies :
        Handle("comment_add_like", comment_add_like(graph, c, d))
CommentRemoveLike ==
    \E c \in CommentKeys, d \in LikeBodies :
        Handle("comment_remove_like", comment_remove_like(graph, c, d))

Next ==
    \/ GetUserById \/ CreateUser \/ UpdateUser \/ DeleteUser \/ GetUserFriends
    \/ AddFriendToUser \/ RemoveFriendToUser \/ CheckUsersAreFriends
    \/ GetMutualFriends \/ GetUserPosts \/ CreatePost
    \/ GetPostById \/ UpdatePost \/ DeletePost \/ PostAddLike \/ PostRemoveLike
    \/ GetPostComments \/ CreateComment \/ DeletePostComment
    \/ GetCommentById \/ UpdateComment \/ DeleteComment
    \/ CommentAddLike \/ CommentRemoveLike

Spec == Init /\ [][Next]_vars

(***************************************************************************)
(* Concurrent callers.  A friendship request pulls the two users and their *)
(* friends_with collections (lines 287-301, 329-340), and saves them in a  *)
(* later step (lines 302, 341: one transaction); other requests may be     *)
(* handled in between.  The concurrent requests here are between two       *)
(* different users.                                                        *)
(***************************************************************************)
\* the request ends at once with an error, or holds its objects until it saves
Begin(w, name, r, objects, message) ==
    /\ served < MaxRequests
    /\ workers[w] = Idle
    /\ served' = served + 1
    /\ IF r.response.code = 201
       THEN /\ workers' = [workers EXCEPT ![w] =
                              [op |-> name, objects |-> objects, message |-> message]]
            /\ UNCHANGED <<graph, route, response>>
       ELSE /\ route' = name
            /\ response' = r.response
            /\ UNCHANGED <<graph, workers>>
    /\ UNCHANGED issued

AddFriendBegin ==
    \E w \in Workers, u \in UserKeys :
      \E d \in {b \in FriendBodies : b # [friend_id |-> u]} :
        Begin(w, "add_friend_to_user", add_friend_to_user(graph, u, d),
              add_friend_objects(graph, repo_match(graph, User, u),
                                 repo_match(graph, User, d["friend_id"])),
              Message("Friend succesfully added"))

RemoveFriendBegin ==
    \E w \in Workers, u \in UserKeys :
      \E f \in UserKeys \ {u} :
        Begin(w, "remove_friend_to_user", remove_friend_to_user(graph, u, f),
              remove_friend_objects(graph, repo_match(graph, User, u),
                                    repo_match(graph, User, f)),
              Message("Friend succesfully removed"))

\* repo.save(user, new_friend) / repo.save(user, friend), and the response
FriendSave ==
    \E w \in Workers :
        /\ workers[w] # Idle
        /\ graph' = repo_save(graph, workers[w].objects)
        /\ route' = workers[w].op
        /\ response' = [code |-> 201, body |-> workers[w].message]
        /\ workers' = [workers EXCEPT ![w] = Idle]
        /\ UNCHANGED <<issued, served>>

NextConcurrent ==
    \/ AddFriendBegin \/ RemoveFriendBegin \/ FriendSave \/ DeleteUser

SpecConcurrent == Init /\ [][NextConcurrent]_vars

Quiescent == \A w \in Workers : workers[w] = Idle

(***************************************************************************)
(* Concurrent creates.  create_post and create_comment commit the new node *)
(* (graph.create, users.py 516, posts.py 348), pull the user's and the     *)
(* post's collection when they add the node to it (users.py 518, posts.py  *)
(* 350-351) and save in a later step (users.py 519, posts.py 352).         *)
(***************************************************************************)
\* lines 509-516: the graph with the new Post node
create_post_node(g, data, uuid, time) ==
    graph_create(g, Node(Post, uuid), [post_id |-> uuid, title |-> data["title"],
                                       content |-> data["content"], created_at |-> time])

\* line 518: the user with the CREATED collection pulled and the post added
create_post_objects(g1, user_id, uuid) ==
    <<with_related(repo_match(g1, User, user_id), "CREATED",
          related(g1, Node(User, user_id), "CREATED") \cup {Node(Post, uuid)})>>

\* lines 342-348: the graph with the new Comment node
create_comment_node(g, data, uuid, time) ==
    graph_create(g, Node(Comment, uuid), [comment_id |-> uuid, content |-> data["content"],
                                          created_at |-> time])

\* lines 350-351: the user and the post with their collections pulled and
\* the comment added
create_comment_objects(g1, post_id, user_id, uuid) ==
    <<with_related(repo_match(g1, User, user_id), "CREATED",
          related(g1, Node(User, user_id), "CREATED") \cup {Node(Comment, uuid)}),
      with_related(repo_match(g1, Post, post_id), "HAS_COMMENT",
          related(g1, Node(Post, post_id), "HAS_COMMENT") \cup {Node(Comment, uuid)})>>

\* the request ends at once with an error, or commits its node and holds its
\* objects until it saves
BeginCreate(w, name, label, max, r, g1, objects, message) ==
    /\ served < MaxRequests
    /\ workers[w] = Idle
    /\ served' = served + 1
    /\ IF r.response.code = 201
       THEN /\ issued[label] < max
            /\ graph' = g1
            /\ issued' = [issued EXCEPT ![label] = @ + 1]
            /\ workers' = [workers EXCEPT ![w] =
                              [op |-> name, objects |-> objects, message |-> message]]
            /\ UNCHANGED <<route, response>>
       ELSE /\ route' = name
            /\ response' = r.response
            /\ UNCHANGED <<graph, issued, workers>>

CreatePostBegin ==
    \E w \in Workers, u \in UserKeys, d \in PostBodies :
        LET uuid == issued[Post] + 1
            g1 == create_post_node(graph, d, uuid, served)
        IN BeginCreate(w, "create_post", Post, MaxPosts,
                       create_post(graph, u, d, uuid, served), g1,
                       create_post_objects(g1, u, uuid),
                       Message("Post succesfully created"))

CreateCommentBegin ==
    \E w \in Workers, p \in PostKeys, d \in CommentBodies :
        LET uuid == issued[Comment] + 1
            g1 == create_comment_node(graph, d, uuid, served)
        IN BeginCreate(w, "create_comment", Comment, MaxComments,
                       create_comment(graph, p, d, uuid, served), g1,
                       create_comment_objects(g1, p, d["user_id"], uuid),
                       Message("Comment succesfully created"))

\* repo.save(user) / repo.save(user, post), and the response
CreateSave ==
    \E w \in Workers :
        /\ workers[w] # Idle
        /\ graph' = repo_save(graph, workers[w].objects)
        /\ route' = workers[w].op
        /\ response' = [code |-> 201, body |-> workers[w].message]
        /\ workers' = [workers EXCEPT ![w] = Idle]
        /\ UNCHANGED <<issued, served>>

NextAuthorship ==
    \/ CreatePostBegin \/ CreateCommentBegin \/ CreateSave \/ DeleteUser \/ DeletePost

SpecAuthorship == Init /\ [][NextAuthorship]_vars

(***************************************************************************)
(* Concurrent likes.  add_like pulls the user's LIKES collection when it   *)
(* adds the post to it (posts.py 203) and saves it in a later step         *)
(* (posts.py 204).                                                         *)
(***************************************************************************)
\* line 203: the user with the LIKES collection pulled and the post added
post_add_like_objects(g, post_id, user_id) ==
    <<with_related(repo_match(g, User, user_id), "LIKES",
          related(g, Node(User, user_id), "LIKES") \cup {Node(Post, post_id)})>>

PostAddLikeBegin ==
    \E w \in Workers, p \in PostKeys, d \in LikeBodies :
        Begin(w, "post_add_like", post_add_like(graph, p, d),
              post_add_like_objects(graph, p, d["user_id"]),
              [message |-> "Post succesfully liked by User", user_id |-> d["user_id"]])

\* repo.save(user), and the response
LikeSave ==
    \E w \in Workers :
        /\ workers[w] # Idle
        /\ graph' = repo_save(graph, workers[w].objects)
        /\ route' = workers[w].op
        /\ response' = [code |-> 201, body |-> workers[w].message]
        /\ workers' = [workers EXCEPT ![w] = Idle]
        /\ UNCHANGED <<issued, served>>

NextLikes == PostAddLikeBegin \/ LikeSave

SpecLikes == Init /\ [][NextLikes]_vars

(***************************************************************************)
(* Properties.                                                             *)
(***************************************************************************)
Friends(g, a, b) == RelCount(g, Rel("FRIENDS_WITH", Node(User, a), Node(User, b))) > 0

IsTrue(r) == r.response.code = 200 /\ r.response.body = TRUE
IsFalse(r) == r.response.code = 200 /\ r.response.body = FALSE

\* C1: requests one at a time: when add_friend_to_user(A, B) answers 201,
\* check_users_are_friends answers true for (A, B) and for (B, A) on the
\* graph it leaves; when remove_friend_to_user(A, B) answers 201, it answers
\* false for both.
C1_FriendshipBothWays ==
    \A a, b \in UserKeys :
        LET added == add_friend_to_user(graph, a, [friend_id |-> b])
            removed == remove_friend_to_user(graph, a, b)
        IN /\ added.response.code = 201 =>
                /\ IsTrue(check_users_are_friends(added.graph, a, b))
                /\ IsTrue(check_users_are_friends(added.graph, b, a))
           /\ removed.response.code = 201 =>
                /\ IsFalse(check_users_are_friends(removed.graph, a, b))
                /\ IsFalse(check_users_are_friends(removed.graph, b, a))

\* add_friend_to_user has just made users 1 and 2 friends
C1_Witness ==
    /\ route = "add_friend_to_user"
    /\ response.code = 201
    /\ served = 1
    /\ Friends(graph, 1, 2)
    /\ Friends(graph, 2, 1)

Symmetric(g) ==
    \A r \in DOMAIN g.rels :
        r.type = "FRIENDS_WITH" => RelCount(g, Rel("FRIENDS_WITH", r.end, r.start)) > 0

\* C2: with friendship requests and delete_user interleaved, whenever no
\* request is in flight the edge A->B is there exactly when B->A is.
C2_SymmetricWhenQuiescent == Quiescent => Symmetric(graph)

Incoming(g, type, label, n) ==
    {r \in DOMAIN g.rels : r.type = type /\ r.end = n /\ r.start[1] = label
                              /\ Exists(g, r.start)}

RECURSIVE Total(_, _)
Total(g, rs) ==
    IF rs = {} THEN 0
    ELSE LET r == CHOOSE x \in rs : TRUE IN g.rels[r] + Total(g, rs \ {r})

\* C3: every Comment node has exactly one HAS_COMMENT edge from a Post in
\* the store and exactly one CREATED edge from a User in the store.
C3_CommentHasPostAndAuthor ==
    \A n \in DOMAIN graph.nodes :
        n[1] = Comment =>
            /\ Total(graph, Incoming(graph, "HAS_COMMENT", Post, n)) = 1
            /\ Total(graph, Incoming(graph, "CREATED", User, n)) = 1

\* C4: when delete_post(P) answers 204, P is gone, get_comment_by_id answers
\* 404 for every comment that P had by HAS_COMMENT, and every other comment
\* is there as it was, with its edges.
C4_DeletePostCascades ==
    \A p \in PostKeys :
        LET r == delete_post(graph, p)
            had(c) == RelCount(graph, Rel("HAS_COMMENT", Node(Post, p), Node(Comment, c))) > 0
        IN r.response.code = 204 =>
             /\ get_post_by_id(r.graph, p).response.code = 404
             /\ \A c \in CommentKeys :
                   /\ had(c) => get_comment_by_id(r.graph, c).response.code = 404
                   /\ (Exists(graph, Node(Comment, c)) /\ ~had(c)) =>
                        /\ get_comment_by_id(r.graph, c).response
                               = get_comment_by_id(graph, c).response
                        /\ \A x \in DOMAIN graph.rels :
                              (x.end = Node(Comment, c) /\ x.start # Node(Post, p))
                                  => RelCount(r.graph, x) = graph.rels[x]

\* delete_post has just removed post 1 and its comment; post 2's comment stays
C4_Witness ==
    /\ route = "delete_post"
    /\ response.code = 204
    /\ served = 1
    /\ ~Exists(graph, Node(Post, 1))
    /\ ~Exists(graph, Node(Comment, 1))
    /\ Exists(graph, Node(Post, 2))
    /\ RelCount(graph, Rel("HAS_COMMENT", Node(Post, 2), Node(Comment, 2))) = 1

\* C5: a request answered 400 or 404 leaves the graph as it was.
C5_ErrorsLeaveStore == [][response'.code \in {400, 404} => graph' = graph]_vars

\* create_comment without content has just been refused
C5_Witness ==
    /\ route = "create_comment"
    /\ response.code = 400
    /\ response.body = Message("content property is missing")
    /\ issued[Comment] = Cardinality({n \in DOMAIN graph.nodes : n[1] = Comment})

Lacks(d, fields) == \E f \in fields : f \notin DOMAIN d

Code(r) == r.response.code

\* C6 as the spec has it: a request that lacks a required field is answered
\* 400 whether or not the entities it names exist.
C6_MissingFieldAlways400 ==
    /\ \A u \in UserKeys, d \in PostBodies :
          Lacks(d, {"title", "content"})
              => Code(create_post(graph, u, d, issued[Post] + 1, served)) = 400
    /\ \A u \in UserKeys : Code(add_friend_to_user(graph, u, <<>>)) = 400
    /\ \A p \in PostKeys, d \in CommentBodies :
          Lacks(d, {"user_id", "content"})
              => Code(create_comment(graph, p, d, issued[Comment] + 1, served)) = 400
    /\ \A p \in PostKeys :
          Code(post_add_like(graph, p, <<>>)) = 400 /\ Code(post_remove_like(graph, p, <<>>)) = 400
    /\ \A c \in CommentKeys :
          /\ Code(comment_add_like(graph, c, <<>>)) = 400
          /\ Code(comment_remove_like(graph, c, <<>>)) = 400

\* C6 as the code has it: a request that lacks a required field changes
\* nothing, and is answered 400 once the entity the handler looks up before
\* it checks the field exists, 404 otherwise: the path's user for create_post
\* and add_friend_to_user, the body's user for create_comment without
\* content; create_comment, like and unlike without user_id are answered 400
\* before any lookup.
C6_MissingFieldAfterLookups ==
    /\ \A u \in UserKeys, d \in PostBodies :
          LET r == create_post(graph, u, d, issued[Post] + 1, served)
          IN Lacks(d, {"title", "content"}) =>
                /\ r.graph = graph
                /\ Code(r) = IF Exists(graph, Node(User, u)) THEN 400 ELSE 404
    /\ \A u \in UserKeys :
          LET r == add_friend_to_user(graph, u, <<>>)
          IN /\ r.graph = graph
             /\ Code(r) = IF Exists(graph, Node(User, u)) THEN 400 ELSE 404
    /\ \A p \in PostKeys, d \in CommentBodies :
          LET r == create_comment(graph, p, d, issued[Comment] + 1, served)
          IN Lacks(d, {"user_id", "content"}) =>
                /\ r.graph = graph
                /\ Code(r) = IF "user_id" \notin DOMAIN d THEN 400
                             ELSE IF Exists(graph, Node(User, d["user_id"])) THEN 400
                             ELSE 404
    /\ \A p \in PostKeys :
          /\ post_add_like(graph, p, <<>>) = Resp(graph, 400, Error("user_id property is missing"))
          /\ post_remove_like(graph, p, <<>>)
                 = Resp(graph, 400, Error("user_id property is missing"))
    /\ \A c \in CommentKeys :
          /\ comment_add_like(graph, c, <<>>)
                 = Resp(graph, 400, Error("user_id property is missing"))
          /\ comment_remove_like(graph, c, <<>>)
                 = Resp(graph, 400, Error("user_id property is missing"))

\* create_post without a title for a user that is not there: answered 404
C6_Witness ==
    /\ route = "create_post"
    /\ response.code = 404
    /\ served = 1
    /\ \E u \in UserKeys :
          /\ ~Exists(graph, Node(User, u))
          /\ Code(create_post(graph, u, [content |-> "x"], issued[Post] + 1, served)) = 404

\* C7: delete_post_comment(P, C) with P and C in the store: when P has no
\* HAS_COMMENT edge to C the answer is 404 "Comment not found in Post P",
\* which is not the answer for a missing comment, and the graph is as it
\* was; when P has the edge, the answer is 204 and C is gone.
C7_ScopedDelete ==
    \A p \in PostKeys, c \in CommentKeys :
        LET r == delete_post_comment(graph, p, c)
            linked == RelCount(graph, Rel("HAS_COMMENT", Node(Post, p), Node(Comment, c))) > 0
        IN (Exists(graph, Node(Post, p)) /\ Exists(graph, Node(Comment, c))) =>
              /\ ~linked =>
                    /\ r.response = [code |-> 404,
                                     body |-> [error |-> "Comment not found in Post",
                                               post_id |-> p]]
                    /\ r.response.body # Error("Comment not found")
                    /\ r.graph = graph
              /\ linked =>
                    /\ Code(r) = 204
                    /\ get_comment_by_id(r.graph, c).response.code = 404

\* delete_post_comment has just refused a comment of the other post
C7_Witness ==
    /\ route = "delete_post_comment"
    /\ response.code = 404
    /\ response.body.error = "Comment not found in Post"
    /\ Exists(graph, Node(Comment, 1))
    /\ Exists(graph, Node(Comment, 2))

Likes(g, u, n) == RelCount(g, Rel("LIKES", Node(User, u), n))

\* C8: liking twice leaves what liking once leaves, with the same answer,
\* and no user has more than one LIKES edge to a post or comment.
C8_LikeIdempotent ==
    /\ \A r \in DOMAIN graph.rels : r.type = "LIKES" => graph.rels[r] <= 1
    /\ \A u \in UserKeys, p \in PostKeys :
          LET once == post_add_like(graph, p, [user_id |-> u])
          IN Code(once) = 201 =>
                /\ post_add_like(once.graph, p, [user_id |-> u]) = once
                /\ Likes(once.graph, u, Node(Post, p)) = 1
    /\ \A u \in UserKeys, c \in CommentKeys :
          LET once == comment_add_like(graph, c, [user_id |-> u])
          IN Code(once) = 201 =>
                /\ comment_add_like(once.graph, c, [user_id |-> u]) = once
                /\ Likes(once.graph, u, Node(Comment, c)) = 1

\* add_like has just been answered 201 for a post the user liked already
C8_Witness ==
    /\ route = "post_add_like"
    /\ response.code = 201
    /\ served = 2
    /\ Cardinality({r \in DOMAIN graph.rels : r.type = "LIKES"}) = 1
    /\ Likes(graph, response.body.user_id, Node(Post, 1)) = 1
    /\ post_add_like(graph, 1, [user_id |-> response.body.user_id]).graph = graph

\* C9: for a user and a post or comment in the store with no LIKES edge
\* between them, remove_like answers 201 and leaves the graph as it was; so
\* does remove_friend_to_user for two users in the store that are not friends.
C9_RemoveAbsentEdge ==
    /\ \A u \in UserKeys, p \in PostKeys :
          (Exists(graph, Node(User, u)) /\ Exists(graph, Node(Post, p))
             /\ Likes(graph, u, Node(Post, p)) = 0) =>
              LET r == post_remove_like(graph, p, [user_id |-> u])
              IN Code(r) = 201 /\ r.graph = graph
    /\ \A u \in UserKeys, c \in CommentKeys :
          (Exists(graph, Node(User, u)) /\ Exists(graph, Node(Comment, c))
             /\ Likes(graph, u, Node(Comment, c)) = 0) =>
              LET r == comment_remove_like(graph, c, [user_id |-> u])
              IN Code(r) = 201 /\ r.graph = graph
    /\ \A a, b \in UserKeys :
          (Exists(graph, Node(User, a)) /\ Exists(graph, Node(User, b))
             /\ ~Friends(graph, a, b) /\ ~Friends(graph, b, a)) =>
              LET r == remove_friend_to_user(graph, a, b)
              IN Code(r) = 201 /\ r.graph = graph

\* remove_like has just been answered 201 in a store that never held a like
C9_Witness ==
    /\ route = "post_remove_like"
    /\ response.code = 201
    /\ served = 1
    /\ \A r \in DOMAIN graph.rels : r.type # "LIKES"

\* C10: for two users in the store get_mutual_friends answers 200 with a
\* list without repeats of exactly the user ids that are FRIENDS_WITH
\* neighbours of both, and the same ids with the two users swapped.
C10_MutualFriends ==
    \A a, b \in UserKeys :
        (Exists(graph, Node(User, a)) /\ Exists(graph, Node(User, b))) =>
            \A o \in UserOrders :
                LET r == get_mutual_friends(graph, a, b, o).response
                    both == {k \in UserKeys : Friends(graph, a, k) /\ Friends(graph, b, k)}
                IN /\ r.code = 200
                   /\ Range(r.body) = both
                   /\ Len(r.body) = Cardinality(both)
                   /\ Range(get_mutual_friends(graph, b, a, o).response.body) = Range(r.body)

\* get_mutual_friends has just answered with the one friend two users share
C10_Witness ==
    /\ route = "get_mutual_friends"
    /\ response.code = 200
    /\ response.body = <<3>>
    /\ Friends(graph, 1, 3)
    /\ Friends(graph, 2, 3)
    /\ ~Friends(graph, 1, 2)

\* C11: a CREATED edge from a user into a post stays, as the only CREATED
\* edge into the post, for as long as the user and the post are both in the
\* store.
C11_AuthorshipStays ==
    [][\A r \in DOMAIN graph.rels :
          (r.type = "CREATED" /\ r.start[1] = User /\ r.end[1] = Post
             /\ Exists(graph', r.start) /\ Exists(graph', r.end)) =>
              /\ RelCount(graph', r) = 1
              /\ Total(graph', Incoming(graph', "CREATED", User, r.end)) = 1]_vars

\* C16: with add_like requests by one user running concurrently, the LIKES
\* edge a request that was answered 201 has written is there after the
\* other request is answered too: no step of an add_like removes a LIKES edge.
C16_NoLikeLost ==
    [][\A r \in DOMAIN graph.rels : r.type = "LIKES" => RelCount(graph', r) = 1]_vars

Full(d, fields) == \A f \in fields : f \in DOMAIN d

\* g2 is g with exactly one node more, n, whose key no node of g has
OneNewNode(g, g2, n) ==
    /\ ~Exists(g, n)
    /\ DOMAIN g2.nodes = DOMAIN g.nodes \cup {n}
    /\ \A m \in DOMAIN g.nodes : g2.nodes[m] = g.nodes[m]

\* C12: create_user, create_post and create_comment with every required
\* field and with the user and post they name in the store answer 201, leave
\* exactly one node more, under a key no node had, and get-by-id with that
\* key answers 200 with the fields as they were given.
C12_CreatedIsRetrievable ==
    /\ \A d \in UserBodies :
          Full(d, {"name", "email"}) =>
              LET k == issued[User] + 1
                  r == create_user(graph, d, k, served)
              IN /\ Code(r) = 201
                 /\ OneNewNode(graph, r.graph, Node(User, k))
                 /\ get_user_by_id(r.graph, k).response
                        = [code |-> 200,
                           body |-> [user_id |-> k, name |-> d["name"],
                                     email |-> d["email"], created_at |-> served]]
    /\ \A u \in UserKeys, d \in PostBodies :
          (Full(d, {"title", "content"}) /\ Exists(graph, Node(User, u))) =>
              LET k == issued[Post] + 1
                  r == create_post(graph, u, d, k, served)
              IN /\ Code(r) = 201
                 /\ OneNewNode(graph, r.graph, Node(Post, k))
                 /\ get_post_by_id(r.graph, k).response
                        = [code |-> 200,
                           body |-> [post_id |-> k, title |-> d["title"],
                                     content |-> d["content"], created_at |-> served]]
    /\ \A p \in PostKeys, d \in CommentBodies :
          (Full(d, {"user_id", "content"}) /\ Exists(graph, Node(User, d["user_id"]))
             /\ Exists(graph, Node(Post, p))) =>
              LET k == issued[Comment] + 1
                  r == create_comment(graph, p, d, k, served)
              IN /\ Code(r) = 201
                 /\ OneNewNode(graph, r.graph, Node(Comment, k))
                 /\ get_comment_by_id(r.graph, k).response
                        = [code |-> 200,
                           body |-> [comment_id |-> k, content |-> d["content"],
                                     created_at |-> served]]

\* create_user has just created the first user of an empty store
C12_Witness ==
    /\ route = "create_user"
    /\ response.code = 201
    /\ served = 1
    /\ DOMAIN graph.nodes = {Node(User, 1)}
    /\ get_user_by_id(graph, 1).response.body.created_at = 0

\* the properties after an update: the body's values for the updatable
\* fields it carries, the old values for every other field
Updated(props, d, fields) ==
    [f \in DOMAIN props |-> IF f \in fields /\ f \in DOMAIN d THEN d[f] ELSE props[f]]

\* C13: update_user, update_post and update_comment on a node in the store
\* answer 201 and leave the graph as it was but for the updatable fields the
\* body carries, which get the body's values: the key, created_at, absent
\* fields, every relationship and every other node are as before, and a
\* body with no updatable field changes nothing.
C13_UpdateFrame ==
    /\ \A u \in UserKeys, d \in UserBodies :
          Exists(graph, Node(User, u)) =>
              LET r == update_user(graph, u, d)
              IN /\ Code(r) = 201
                 /\ r.graph = [graph EXCEPT !.nodes[Node(User, u)] =
                                                Updated(@, d, {"name", "email"})]
                 /\ d = <<>> => r.graph = graph
    /\ \A p \in PostKeys, d \in PostBodies :
          Exists(graph, Node(Post, p)) =>
              LET r == update_post(graph, p, d)
              IN /\ Code(r) = 201
                 /\ r.graph = [graph EXCEPT !.nodes[Node(Post, p)] =
                                                Updated(@, d, {"title", "content"})]
                 /\ d = <<>> => r.graph = graph
    /\ \A c \in CommentKeys, d \in ContentBodies :
          Exists(graph, Node(Comment, c)) =>
              LET r == update_comment(graph, c, d)
              IN /\ Code(r) = 201
                 /\ r.graph = [graph EXCEPT !.nodes[Node(Comment, c)] =
                                                Updated(@, d, {"content"})]
                 /\ d = <<>> => r.graph = graph

\* update_post has just changed the title of post 1 and nothing else
C13_Witness ==
    /\ route = "update_post"
    /\ response.code = 201
    /\ served = 1
    /\ Exists(graph, Node(Post, 1))
    /\ graph.nodes[Node(Post, 1)]
           = [post_id |-> 1, title |-> "y", content |-> "y", created_at |-> -8]
    /\ RelCount(graph, Rel("CREATED", Node(User, 1), Node(Post, 1))) = 1

\* C14: get_user_posts answers 404 for a user that is not in the store, and
\* for one that is, 200 with exactly the posts the user has a CREATED edge
\* to, each with its post_id, title, content and created_at.
C14_UserPosts ==
    \A u \in UserKeys :
        LET r == get_user_posts(graph, u).response
            created == {p \in PostKeys :
                           RelCount(graph, Rel("CREATED", Node(User, u), Node(Post, p))) > 0}
        IN IF Exists(graph, Node(User, u))
           THEN /\ r.code = 200
                /\ Range(r.body) = {get_post_by_id(graph, p).response.body : p \in created}
           ELSE r.code = 404

\* no relationship of g starts or ends at n
Untouched(g, n) == \A x \in DOMAIN g.rels : x.start # n /\ x.end # n

\* C15: both ends of every relationship are nodes of the store; and when
\* delete_user, delete_post, delete_comment or delete_post_comment answers
\* 204 no relationship starts or ends at the deleted node, so no user has
\* the deleted user as a friend.
C15_NoDanglingEdge ==
    /\ \A x \in DOMAIN graph.rels : Exists(graph, x.start) /\ Exists(graph, x.end)
    /\ \A u \in UserKeys :
          LET r == delete_user(graph, u)
          IN Code(r) = 204 =>
                /\ Untouched(r.graph, Node(User, u))
                /\ \A f \in UserKeys : ~Friends(r.graph, f, u)
    /\ \A p \in PostKeys :
          Code(delete_post(graph, p)) = 204 => Untouched(delete_post(graph, p).graph, Node(Post, p))
    /\ \A c \in CommentKeys :
          /\ Code(delete_comment(graph, c)) = 204
                => Untouched(delete_comment(graph, c).graph, Node(Comment, c))
          /\ \A p \in PostKeys :
                Code(delete_post_comment(graph, p, c)) = 204
                    => Untouched(delete_post_comment(graph, p, c).graph, Node(Comment, c))

\* delete_user has just removed user 3, who was a friend of users 1 and 2
C15_Witness ==
    /\ route = "delete_user"
    /\ response.code = 204
    /\ served = 1
    /\ issued[User] = 3
    /\ ~Exists(graph, Node(User, 3))
    /\ Exists(graph, Node(User, 1))
    /\ Exists(graph, Node(User, 2))
    /\ Untouched(graph, Node(User, 3))

====
